---- MODULE Spec2Model ----
(***************************************************************************)
(* Model of the parallel file uploader: the orchestrator                   *)
(* (ParallelFileUploader), the file queue (FileManager) and the chunk      *)
(* state store (ChunkManager).                                             *)
(*                                                                         *)
(* All bookkeeping runs on one control flow.  Each action below is one run *)
(* of that control flow from an external event (a public call, or the      *)
(* resolution of a promise the code awaits) to the next suspension point.  *)
(* The injected callbacks sendFileInfoToServer, getFilePartsFromServer,    *)
(* sendFilePartToServer and sendFileCompleteToServer are configured; the   *)
(* speed limiter is in its default, disabled state.                        *)
(***************************************************************************)
EXTENDS Integers, Sequences, FiniteSets, TLC

----------------------------------------------------------------------------
(* Configuration (constructor options) and bounds of the model             *)

\* options.maxConcurrentFiles
MaxConcurrentFiles == 1
\* options.maxConcurrentChunks
MaxConcurrentChunks == 2
\* options.maxRetries
MaxRetries == 1
\* options.chunkSize, in bytes
ChunkSize == 2
\* number of execution slots of the worker pool
NumWorkers == 1
\* longest list handed to one addFiles call
MaxBatch == 2
\* longest list of parts the server reports for one file
MaxReported == 2
\* largest file size and chunk size handed to prepareChunkQueue on its own
MaxFileSize == 12
MaxChunkSize == 9
\* how many callback or worker failures a run contains
MaxFaults == 2
\* how many files the caller cancels in a run
MaxCancels == 1
\* how many more cancel calls the caller makes in a run: cancelFile for a
\* file that is not active, cancelAll, destroy
MaxCancelCalls == 1
\* how many files the caller pauses in a run
MaxPauses == 1
\* most workers initialize creates (navigator.hardwareConcurrency)
MaxWorkerCount == 2
\* how many chunks are handed to uploadChunk in a run of the WorkerManager
MaxTasks == 3
\* how many times abortFileTasks is called in a run of the WorkerManager
MaxAborts == 1
\* largest small capacity (bytes per second) and request (bytes) of the limiter
MaxCapacity == 2
MaxRequest == 3
\* how many calls are made of the limiter, and how often the clock advances
MaxLimiterCalls == 3
MaxTicks == 2
\* how many files one saveQueue is given, how many calls are made of the
\* QueuePersistence, and how often its clock advances
MaxSaved == 2
MaxPersistenceCalls == 3
MaxClockTicks == 2
\* the capacity and request size of the limiter's tests
TestCapacity == 1000

\* The files the caller adds, in this order, by size in bytes (0: an empty
\* file, which validateFile rejects).
UserFiles == <<0, 5, 1>>

FileIds == 1..Len(UserFiles)
Workers == 1..NumWorkers
Undefined == 0 - 1
Etags == {"e1", "e2"}

VARIABLES
    maxConcurrentFiles, \* this.maxConcurrentFiles, set by the constructor
    nextFile,        \* how many of UserFiles have been handed to addFiles
    fileQueue,       \* FileManager.fileQueue: sequence of file ids
    activeFiles,     \* FileManager.activeFiles: the keys of the map
    status,          \* fileInfo.status of every file ("none": not created)
    uploadedSize,    \* fileInfo.uploadedSize
    progress,        \* fileInfo.progress
    parts,           \* fileInfo.uploadInfo.parts: committed part numbers
    chunkQueue,      \* ChunkManager.chunkQueue: fileId -> waiting chunks
    uploadedChunks,  \* ChunkManager.uploadedChunks: fileId -> part numbers
    pendingChunks,   \* ChunkManager.pendingChunks: fileId -> part numbers
    workerBusy,      \* busy flag of each execution slot
    calls,           \* outstanding begin / list-parts / finalize callbacks
    uploads,         \* outstanding chunk attempts (at a worker or at the server)
    emitted,         \* notifications raised by the last step
    cancelled,       \* history: files cancelFile has removed
    requeues,        \* history: how often each chunk was requeued (saturating)
    everPaused,      \* history: files that have been paused
    faults,          \* history: failures injected so far
    idleNotifications, \* history: onAllComplete calls since there was last work
    reported,        \* history: part numbers taken over from the server's list
    unordered,       \* history: files with a completion that arrived after a higher part
    skipped,         \* history: files whose begin call answered skipUpload
    probe,           \* input and result of a single ChunkManager call
    wm,              \* the WorkerManager, its workers and the tasks handed to it
    limiter,         \* the SpeedLimiter, the clock and the requests made of it
    persistence,     \* the QueuePersistence, its storage, the clock and the last results
    history          \* history: finalize calls, terminal notifications, cancel calls, fault budget

vars == <<maxConcurrentFiles, nextFile, fileQueue, activeFiles, status, uploadedSize, progress,
          parts, chunkQueue, uploadedChunks, pendingChunks, workerBusy, calls,
          uploads, emitted, cancelled, requeues, everPaused, faults,
          idleNotifications, reported, unordered, skipped,
          probe, wm, limiter, persistence, history>>

\* The state as one record, so that the handlers compose as functions.
Cur ==
    [maxConcurrentFiles |-> maxConcurrentFiles,
     nextFile |-> nextFile, fileQueue |-> fileQueue, activeFiles |-> activeFiles,
     status |-> status, uploadedSize |-> uploadedSize, progress |-> progress,
     parts |-> parts, chunkQueue |-> chunkQueue,
     uploadedChunks |-> uploadedChunks, pendingChunks |-> pendingChunks,
     workerBusy |-> workerBusy, calls |-> calls, uploads |-> uploads,
     emitted |-> {}, cancelled |-> cancelled, requeues |-> requeues,
     everPaused |-> everPaused, faults |-> faults,
     idleNotifications |-> idleNotifications, reported |-> reported,
     unordered |-> unordered, skipped |-> skipped, probe |-> probe,
     wm |-> wm, limiter |-> limiter, persistence |-> persistence,
     history |-> history]

Commit(t0) ==
    \E t \in {t0} :
        /\ maxConcurrentFiles' = t.maxConcurrentFiles
        /\ nextFile' = t.nextFile
        /\ fileQueue' = t.fileQueue
        /\ activeFiles' = t.activeFiles
        /\ status' = t.status
        /\ uploadedSize' = t.uploadedSize
        /\ progress' = t.progress
        /\ parts' = t.parts
        /\ chunkQueue' = t.chunkQueue
        /\ uploadedChunks' = t.uploadedChunks
        /\ pendingChunks' = t.pendingChunks
        /\ workerBusy' = t.workerBusy
        /\ calls' = t.calls
        /\ uploads' = t.uploads
        /\ emitted' = t.emitted
        /\ cancelled' = t.cancelled
        /\ requeues' = t.requeues
        /\ everPaused' = t.everPaused
        /\ faults' = t.faults
        /\ idleNotifications' = t.idleNotifications
        /\ reported' = t.reported
        /\ unordered' = t.unordered
        /\ skipped' = t.skipped
        /\ probe' = t.probe
        /\ wm' = t.wm
        /\ limiter' = t.limiter
        /\ persistence' = t.persistence
        /\ history' = t.history

----------------------------------------------------------------------------
(* Maps with optional keys (JavaScript Map)                                *)

MapSet(m, k, v) == [x \in DOMAIN m \cup {k} |-> IF x = k THEN v ELSE m[x]]
MapDelete(m, k) == [x \in DOMAIN m \ {k} |-> m[x]]
MapGetOr(m, k, d) == IF k \in DOMAIN m THEN m[k] ELSE d

Min(a, b) == IF a < b THEN a ELSE b

\* Math.round(x / y * 100) for x >= 0, y > 0
RoundPercent(x, y) == (200 * x + y) \div (2 * y)

\* Array.prototype.sort by partNumber (stable insertion sort)
RECURSIVE InsertByPartNumber(_, _)
InsertByPartNumber(c, seq) ==
    IF seq = <<>> THEN <<c>>
    ELSE IF c.partNumber < Head(seq).partNumber THEN <<c>> \o seq
    ELSE <<Head(seq)>> \o InsertByPartNumber(c, Tail(seq))

RECURSIVE SortByPartNumber(_)
SortByPartNumber(seq) ==
    IF seq = <<>> THEN <<>>
    ELSE InsertByPartNumber(seq[Len(seq)], SortByPartNumber(SubSeq(seq, 1, Len(seq) - 1)))

----------------------------------------------------------------------------
(* ChunkManager                                                            *)

\* Math.ceil(fileSize / chunkSize)
TotalChunksOf(fileSize, chunkSize) == (fileSize + chunkSize - 1) \div chunkSize

TotalChunks(fileSize) == TotalChunksOf(fileSize, ChunkSize)

\* A loop body that gives every chunk the full chunk size
NewChunkOfFullSize(i, totalChunks, fileSize, chunkSize) ==
    [partNumber |-> i + 1, start |-> i * chunkSize, end |-> i * chunkSize + chunkSize,
     partSize |-> chunkSize, retryCount |-> 0]

\* One element of the list prepareChunkQueue builds (i is the 0-based index)
NewChunkOf(i, totalChunks, fileSize, chunkSize) ==
    LET start == i * chunkSize
        end == IF i = totalChunks - 1 THEN fileSize ELSE start + chunkSize
    IN  [partNumber |-> i + 1, start |-> start, end |-> end,
         partSize |-> end - start, retryCount |-> 0]

NewChunk(i, totalChunks, fileSize) == NewChunkOf(i, totalChunks, fileSize, ChunkSize)

\* The chunk list prepareChunkQueue stores for a file of fileSize bytes
BuildChunks(fileSize, chunkSize) ==
    LET totalChunks == TotalChunksOf(fileSize, chunkSize)
    IN  SortByPartNumber([i \in 1..totalChunks |->
                            NewChunkOf(i - 1, totalChunks, fileSize, chunkSize)])

PrepareChunkQueue(s, f) ==
    [s EXCEPT !.uploadedChunks = MapSet(@, f, {}),
              !.pendingChunks = MapSet(@, f, {}),
              !.chunkQueue = MapSet(@, f, BuildChunks(UserFiles[f], ChunkSize))]

GetRemainingChunkCount(s, f) == Len(MapGetOr(s.chunkQueue, f, <<>>))

GetPendingChunkCount(s, f) == Cardinality(MapGetOr(s.pendingChunks, f, {}))

\* A getNextChunk that reads the head of the queue without taking it out
GetNextChunkKeepingIt(s, f) == s

\* getNextChunk: chunks.shift() on the stored array (an absent key gives a
\* fresh empty array, which is not stored)
GetNextChunk(s, f) ==
    IF f \in DOMAIN s.chunkQueue /\ s.chunkQueue[f] # <<>>
    THEN [s EXCEPT !.chunkQueue[f] = Tail(@)]
    ELSE s

AddToPending(s, f, partNumber) ==
    [s EXCEPT !.pendingChunks =
        MapSet(@, f, MapGetOr(@, f, {}) \cup {partNumber})]

RemoveFromPending(s, f, partNumber) ==
    IF f \in DOMAIN s.pendingChunks
    THEN [s EXCEPT !.pendingChunks[f] = @ \ {partNumber}]
    ELSE s

\* A markChunkCompleted that leaves the part in the pending set
MarkChunkCompletedKeepingPending(s, f, partNumber) ==
    [s EXCEPT !.uploadedChunks =
        MapSet(@, f, MapGetOr(@, f, {}) \cup {partNumber})]

MarkChunkCompleted(s, f, partNumber) ==
    RemoveFromPending(
        [s EXCEPT !.uploadedChunks =
            MapSet(@, f, MapGetOr(@, f, {}) \cup {partNumber})],
        f, partNumber)

\* chunkInfo.retryCount || 0
RetryCountOf(chunk) == IF chunk.retryCount = Undefined THEN 0 ELSE chunk.retryCount

Saturate(n) == Min(n, MaxRetries + 1)

RequeueChunk(s, f, chunk) ==
    LET again == [chunk EXCEPT !.retryCount = RetryCountOf(chunk) + 1]
        s1 == [s EXCEPT !.chunkQueue =
                   MapSet(@, f, <<again>> \o MapGetOr(@, f, <<>>)),
                 !.requeues[f][chunk.partNumber] = Saturate(@ + 1)]
    IN  RemoveFromPending(s1, f, chunk.partNumber)

\* The sum over the uploaded part numbers of min(start + chunkSize, fileSize) - start
RECURSIVE SumPartSizes(_, _)
SumPartSizes(partNumbers, fileSize) ==
    IF partNumbers = {} THEN 0
    ELSE LET p == CHOOSE x \in partNumbers : TRUE
             start == (p - 1) * ChunkSize
             end == Min(start + ChunkSize, fileSize)
         IN  (end - start) + SumPartSizes(partNumbers \ {p}, fileSize)

CalculateUploadedSize(s, f) ==
    IF f \notin DOMAIN s.uploadedChunks THEN 0
    ELSE SumPartSizes(s.uploadedChunks[f], UserFiles[f])

CalculateExpectedPartSize(partNumber, fileSize) ==
    LET totalChunks == TotalChunks(fileSize)
        remainingSize == fileSize - (partNumber - 1) * ChunkSize
    IN  IF partNumber = totalChunks
        THEN (IF remainingSize > 0 THEN remainingSize ELSE ChunkSize)
        ELSE ChunkSize

ValidateAndFixPartInfo(part, fileSize) ==
    IF part.partSize <= 0
    THEN [part EXCEPT !.partSize = CalculateExpectedPartSize(part.partNumber, fileSize)]
    ELSE part

\* new Set(parts.map(part => part.etag)).size === 1 && parts.length > 1
HasAllSameEtag(existingParts) ==
    /\ Cardinality({existingParts[i].etag : i \in DOMAIN existingParts}) = 1
    /\ Len(existingParts) > 1

RemoveChunk(queue, partNumber) ==
    IF \E i \in DOMAIN queue : queue[i].partNumber = partNumber
    THEN LET index == CHOOSE i \in DOMAIN queue :
                        /\ queue[i].partNumber = partNumber
                        /\ \A j \in 1..(i - 1) : queue[j].partNumber # partNumber
         IN  SubSeq(queue, 1, index - 1) \o SubSeq(queue, index + 1, Len(queue))
    ELSE queue

RECURSIVE MarkExistingParts(_, _, _)
MarkExistingParts(s, f, validatedParts) ==
    IF validatedParts = <<>> THEN s
    ELSE LET p == Head(validatedParts).partNumber
             s1 == [s EXCEPT !.uploadedChunks[f] = @ \cup {p}]
             s2 == IF f \in DOMAIN s1.chunkQueue
                   THEN [s1 EXCEPT !.chunkQueue[f] = RemoveChunk(@, p)]
                   ELSE s1
         IN  MarkExistingParts(s2, f, Tail(validatedParts))

\* A reconciliation that takes the server's list over without checking it
ResumeFromExistingPartsUnchecked(s, f, existingParts) ==
    IF f \in DOMAIN s.uploadedChunks
    THEN MarkExistingParts(s, f, existingParts)
    ELSE s

ResumeFromExistingParts(s, f, existingParts) ==
    LET fileSize == UserFiles[f]
        validatedParts == [i \in DOMAIN existingParts |->
                              ValidateAndFixPartInfo(existingParts[i], fileSize)]
        maxValidPartNumber == TotalChunks(fileSize)
        invalidParts == {i \in DOMAIN validatedParts :
                            \/ validatedParts[i].partNumber < 1
                            \/ validatedParts[i].partNumber > maxValidPartNumber}
    IN  IF existingParts = <<>> THEN s
        ELSE IF HasAllSameEtag(validatedParts) THEN s
        ELSE IF invalidParts # {} THEN s
        ELSE IF f \in DOMAIN s.uploadedChunks
        THEN MarkExistingParts(s, f, validatedParts)
        ELSE s

\* A completion test that overlooks the pending set
IsAllChunksCompletedIgnoringPending(s, f) ==
    Len(MapGetOr(s.chunkQueue, f, <<>>)) = 0

IsAllChunksCompleted(s, f) ==
    /\ Len(MapGetOr(s.chunkQueue, f, <<>>)) = 0
    /\ Cardinality(MapGetOr(s.pendingChunks, f, {})) = 0

ChunkCleanup(s, f) ==
    [s EXCEPT !.chunkQueue = MapDelete(@, f),
              !.uploadedChunks = MapDelete(@, f),
              !.pendingChunks = MapDelete(@, f)]

----------------------------------------------------------------------------
(* FileManager                                                             *)

\* validateFile: an empty file is rejected (no maxFileSize and no
\* allowedFileTypes are configured here)
ValidateFile(fileSize) == fileSize # 0

\* addFiles: validates and queues the files first..last of UserFiles in list
\* order; the first invalid file throws, the files before it stay queued.
RECURSIVE FileManagerAddFiles(_, _, _)
FileManagerAddFiles(s, first, last) ==
    IF first > last THEN [state |-> s, threw |-> FALSE]
    ELSE IF ~ValidateFile(UserFiles[first]) THEN [state |-> s, threw |-> TRUE]
    ELSE FileManagerAddFiles(
            [s EXCEPT !.status[first] = "beforeUpload",
                      !.uploadedSize[first] = 0,
                      !.progress[first] = 0,
                      !.fileQueue = Append(@, first)],
            first + 1, last)

GetActiveCount(s) == Cardinality(s.activeFiles)

\* getStats: the queue length and the active files counted by status
GetStats(s) ==
    LET WithStatus(st) == Cardinality({f \in s.activeFiles : s.status[f] = st})
    IN  [queued |-> Len(s.fileQueue),
         active |-> WithStatus("upload"),
         completed |-> WithStatus("complete"),
         failed |-> WithStatus("error"),
         paused |-> WithStatus("pause")]

GetQueueLength(s) == Len(s.fileQueue)

\* getNextFile (fileQueue.shift) followed by addToActive
AddToActive(s, f) ==
    [s EXCEPT !.fileQueue = Tail(@), !.activeFiles = @ \cup {f}]

RemoveFromActive(s, f) == [s EXCEPT !.activeFiles = @ \ {f}]

UpdateFileStatus(s, f, newStatus) ==
    IF f \in s.activeFiles THEN [s EXCEPT !.status[f] = newStatus] ELSE s

FileManagerUpdateFileProgress(s, f, size) ==
    IF f \in s.activeFiles
    THEN [s EXCEPT !.uploadedSize[f] = size,
                   !.progress[f] = RoundPercent(size, UserFiles[f])]
    ELSE s

----------------------------------------------------------------------------
(* Worker pool: busy/idle bookkeeping of the execution slots               *)

HasAvailableWorker(s) == \E w \in Workers : ~s.workerBusy[w]

GetAvailableWorker(s) == CHOOSE w \in Workers :
    ~s.workerBusy[w] /\ \A v \in Workers : ~s.workerBusy[v] => w <= v

MarkWorkerBusy(s, w) == [s EXCEPT !.workerBusy[w] = TRUE]

MarkWorkerIdle(s, w) == [s EXCEPT !.workerBusy[w] = FALSE]

----------------------------------------------------------------------------
(* ParallelFileUploader                                                    *)

\* A callback is invoked; history counts onFileSuccess and onFileError per
\* file (saturating)
Emit(s, kind, f) ==
    [s EXCEPT !.emitted = @ \cup {<<kind, f>>},
              !.history = IF kind = "success"
                          THEN [@ EXCEPT !.successes[f] = Min(@ + 1, 2)]
                          ELSE IF kind = "error"
                          THEN [@ EXCEPT !.errors[f] = Min(@ + 1, 2)]
                          ELSE @]

\* An outstanding attempt; n numbers the attempts outstanding at once for
\* the same chunk of the same file.
Attempt(s, f, chunk, stage, path, w) ==
    [fileId |-> f, chunk |-> chunk, stage |-> stage, path |-> path, worker |-> w,
     n |-> 1 + Cardinality({u \in s.uploads :
                u.fileId = f /\ u.chunk.partNumber = chunk.partNumber})]

\* A cleanup that forgets the chunk state
CleanupFileKeepingChunks(s, f) == RemoveFromActive(s, f)

CleanupFile(s0, f) ==
    CHOOSE r \in {(
    ChunkCleanup(RemoveFromActive(s, f), f)
      ) : s \in {s0}} : TRUE

\* uploadChunkDirect up to its await: the chunk is on its way to
\* sendFilePartToServer
UploadChunkDirect(s, f, chunk) ==
    [s EXCEPT !.uploads = @ \cup {Attempt(s, f, chunk, "send", "direct", 0)}]

\* uploadChunkWithWorker: the slot is marked busy and the chunk is read and
\* posted to it
UploadChunkWithWorker(s, f, chunk) ==
    IF ~HasAvailableWorker(s) THEN UploadChunkDirect(s, f, chunk)
    ELSE LET w == GetAvailableWorker(s)
         IN  [MarkWorkerBusy(s, w) EXCEPT
                 !.uploads = @ \cup {Attempt(s, f, chunk, "worker", "worker", w)}]

\* A finalize that sends the parts in the order they were pushed
CompleteFileUploadStartUnsorted(s, f) ==
    [s EXCEPT !.status[f] = "complete",
              !.calls.finalize = @ \cup {f},
              !.history.finalizeCalls[f] = Min(@ + 1, 2)]

\* A finalize that leaves fileInfo.status at upload while it is outstanding
CompleteFileUploadStartKeepingStatus(s, f) ==
    [s EXCEPT !.parts[f] = SortByPartNumber(@),
              !.calls.finalize = @ \cup {f},
              !.history.finalizeCalls[f] = Min(@ + 1, 2)]

\* fileInfo.status = complete, the committed parts sorted, and
\* sendFileCompleteToServer called: completeFileUpload up to its await
CompleteFileUploadStart(s, f) ==
    [s EXCEPT !.status[f] = "complete",
              !.parts[f] = SortByPartNumber(@),
              !.calls.finalize = @ \cup {f},
              !.history.finalizeCalls[f] = Min(@ + 1, 2)]

\* The for loop of processChunkQueue
RECURSIVE StartChunks(_, _, _, _)
StartChunks(s0, f, i, availableSlots) ==
    CHOOSE r \in {(
        IF i < availableSlots /\ GetRemainingChunkCount(s, f) > 0
        THEN LET chunk == Head(s.chunkQueue[f])
                 s1 == AddToPending(GetNextChunk(s, f), f, chunk.partNumber)
                 s2 == IF HasAvailableWorker(s1)
                       THEN UploadChunkWithWorker(s1, f, chunk)
                       ELSE UploadChunkDirect(s1, f, chunk)
             IN  StartChunks(s2, f, i + 1, availableSlots)
        ELSE s
      ) : s \in {s0}} : TRUE

\* A slot count that overlooks the chunks already pending
AvailableSlotsIgnoringPending(s, f) == MaxConcurrentChunks

AvailableSlots(s, f) == MaxConcurrentChunks - GetPendingChunkCount(s, f)

\* A top-up that does not look at the file's status
ProcessChunkQueueIgnoringStatus(s, f) ==
    IF f \notin s.activeFiles THEN s
    ELSE IF AvailableSlots(s, f) <= 0 THEN s
    ELSE StartChunks(s, f, 0, AvailableSlots(s, f))

ProcessChunkQueue(s0, f) ==
    CHOOSE r \in {(
        IF f \notin s.activeFiles \/ s.status[f] # "upload" THEN s
        ELSE IF IsAllChunksCompleted(s, f) THEN CompleteFileUploadStart(s, f)
        ELSE IF AvailableSlots(s, f) <= 0 THEN s
        ELSE StartChunks(s, f, 0, AvailableSlots(s, f))
      ) : s \in {s0}} : TRUE

\* initFileUpload up to its first await: sendFileInfoToServer is called
InitFileUploadStart(s0, f) ==
    CHOOSE r \in {(
        [PrepareChunkQueue([s EXCEPT !.status[f] = "beforeUpload"], f)
            EXCEPT !.calls.begin = @ \cup {f}]
      ) : s \in {s0}} : TRUE

\* An admission test that overlooks the active count
CanAdmitIgnoringActive(s) == GetQueueLength(s) > 0

CanAdmit(s) ==
    GetActiveCount(s) < s.maxConcurrentFiles /\ GetQueueLength(s) > 0

\* processFileQueue up to its await: one file is admitted per turn of the
\* loop; the loop goes on when that file's initFileUpload has settled.
ProcessFileQueue(s0) ==
    CHOOSE r \in {(
        IF CanAdmit(s)
        THEN LET f == Head(s.fileQueue)
             IN  InitFileUploadStart(AddToActive(s, f), f)
        ELSE s
      ) : s \in {s0}} : TRUE

UpdateFileProgress(s0, f) ==
    CHOOSE r \in {(
        Emit(FileManagerUpdateFileProgress(s, f, CalculateUploadedSize(s, f)),
             "progress", f)
      ) : s \in {s0}} : TRUE

HandleChunkSuccess(s0, f, chunk) ==
    CHOOSE r \in {(
        ProcessChunkQueue(
            UpdateFileProgress(MarkChunkCompleted(s, f, chunk.partNumber), f), f)
      ) : s \in {s0}} : TRUE

ShouldRetry(chunk) == RetryCountOf(chunk) < MaxRetries

HandleChunkError(s0, f, chunk) ==
    CHOOSE r \in {(
        LET s1 == RemoveFromPending(s, f, chunk.partNumber)
        IN  IF ShouldRetry(chunk)
            THEN ProcessChunkQueue(RequeueChunk(s1, f, chunk), f)
            ELSE ProcessFileQueue(
                    CleanupFile(Emit(UpdateFileStatus(s1, f, "error"), "error", f), f))
      ) : s \in {s0}} : TRUE

\* An error handler that keeps the failed file in the active set
HandleFileErrorKeepingSlot(s, f) ==
    Emit(UpdateFileStatus(s, f, "error"), "error", f)

HandleFileError(s0, f) ==
    CHOOSE r \in {(
        ProcessFileQueue(
            CleanupFile(Emit(UpdateFileStatus(s, f, "error"), "error", f), f))
      ) : s \in {s0}} : TRUE

\* processFileQueue after `await initFileUpload` returned normally:
\* uploadFile, then the next turn of the loop
\* A skip branch that leaves the file where it is
SkipUploadKeepingFile(s, f) ==
    Emit(Emit([s EXCEPT !.status[f] = "complete"], "success", f), "complete", f)

\* initFileUpload's branch for result.data.skipUpload
SkipUpload(s, f) ==
    CleanupFile(
        Emit(Emit([s EXCEPT !.status[f] = "complete"], "success", f), "complete", f),
        f)

AfterInitFileUpload(s, f) == ProcessFileQueue(ProcessChunkQueue(s, f))

\* The copy of the chunk that travels to the worker and back: it carries no
\* retryCount
WorkerCopy(chunk) == [chunk EXCEPT !.retryCount = Undefined]

----------------------------------------------------------------------------
(* Initial state: a freshly constructed uploader                           *)

\* The uploader constructed with options.maxConcurrentFiles = m, in an
\* environment that lets at most budget calls fail
ConstructedWith(m, budget) ==
    /\ maxConcurrentFiles = m
    /\ nextFile = 0
    /\ fileQueue = <<>>
    /\ activeFiles = {}
    /\ status = [f \in FileIds |-> "none"]
    /\ uploadedSize = [f \in FileIds |-> 0]
    /\ progress = [f \in FileIds |-> 0]
    /\ parts = [f \in FileIds |-> <<>>]
    /\ chunkQueue = <<>>
    /\ uploadedChunks = <<>>
    /\ pendingChunks = <<>>
    /\ workerBusy = [w \in Workers |-> FALSE]
    /\ calls = [begin |-> {}, parts |-> {}, finalize |-> {}]
    /\ uploads = {}
    /\ emitted = {}
    /\ cancelled = {}
    /\ requeues = [f \in FileIds |-> [p \in 1..TotalChunks(UserFiles[f]) |-> 0]]
    /\ everPaused = {}
    /\ faults = 0
    /\ idleNotifications = 0
    /\ reported = [f \in FileIds |-> {}]
    /\ unordered = {}
    /\ skipped = {}
    /\ history = [finalizeCalls |-> [f \in FileIds |-> 0],
                  successes |-> [f \in FileIds |-> 0],
                  errors |-> [f \in FileIds |-> 0],
                  cancelCalls |-> 0,
                  cancelledAgain |-> {},
                  cancelledInQueue |-> {},
                  dropped |-> {},
                  destroyed |-> FALSE,
                  faultBudget |-> budget]

\* The uploader constructed with options.maxConcurrentFiles = m
Constructed(m) == ConstructedWith(m, MaxFaults)

NoProbe == [op |-> "none"]

\* The uploader of this part of the model runs without a WorkerManager of its own
NoWorkerManager == [op |-> "none"]

\* The speed limiter is left as constructed: disabled
NoLimiter == [op |-> "none"]

\* Persistence is left as constructed: disabled, nothing stored
NoPersistence == [op |-> "none"]

Init ==
    /\ Constructed(MaxConcurrentFiles)
    /\ probe = NoProbe
    /\ wm = NoWorkerManager
    /\ limiter = NoLimiter
    /\ persistence = NoPersistence

\* The same uploader with one more file slot
\* The uploader in an environment where a chunk and its retry can fail for
\* two chunks
InitFaulty ==
    /\ ConstructedWith(MaxConcurrentFiles, 2 * (MaxRetries + 1))
    /\ probe = NoProbe
    /\ wm = NoWorkerManager
    /\ limiter = NoLimiter
    /\ persistence = NoPersistence

InitTwoSlots ==
    /\ Constructed(MaxConcurrentFiles + 1)
    /\ probe = NoProbe
    /\ wm = NoWorkerManager
    /\ limiter = NoLimiter
    /\ persistence = NoPersistence

----------------------------------------------------------------------------
(* Public calls                                                            *)

\* There is a file in the queue or in the active set
HasWork(s) == GetActiveCount(s) > 0 \/ GetQueueLength(s) > 0

\* History: with work at hand, the count of idle notifications starts anew
NoteWork(s) == IF HasWork(s) THEN [s EXCEPT !.idleNotifications = 0] ELSE s

\* this.onAllComplete()
OnAllComplete(s) ==
    [Emit(s, "allComplete", 0) EXCEPT !.idleNotifications = Min(@ + 1, 2)]

RECURSIVE EmitAdded(_, _, _)
EmitAdded(s, first, last) ==
    IF first > last THEN s ELSE EmitAdded(Emit(s, "added", first), first + 1, last)

\* addFiles with the next k files of the caller
AddFiles(k) ==
    /\ nextFile + k <= Len(UserFiles)
    /\ LET first == nextFile + 1
           last == nextFile + k
           r == FileManagerAddFiles([Cur EXCEPT !.nextFile = last], first, last)
       IN  IF r.threw
           THEN Commit(NoteWork(Emit(r.state, "rejected", first)))
           ELSE Commit(NoteWork(ProcessFileQueue(EmitAdded(r.state, first, last))))

PauseFile(f) ==
    /\ f \in activeFiles
    /\ status[f] = "upload"
    /\ f \in everPaused \/ Cardinality(everPaused) < MaxPauses
    /\ Commit([UpdateFileStatus(Cur, f, "pause") EXCEPT !.everPaused = @ \cup {f}])

ResumeFile(f) ==
    /\ f \in activeFiles
    /\ status[f] = "pause"
    /\ Commit(ProcessChunkQueue(UpdateFileStatus(Cur, f, "upload"), f))

CancelFile(f) ==
    /\ f \in activeFiles
    /\ Cardinality(cancelled) < MaxCancels
    /\ Commit(ProcessFileQueue(
            CleanupFile([Cur EXCEPT !.cancelled = @ \cup {f}], f)))

\* A cancelFile that does not look whether the file is active
CancelFileCallUnguarded(s, f) == ProcessFileQueue(CleanupFile(s, f))

\* cancelFile: nothing happens unless the file is in the active set
CancelFileCall(s, f) ==
    IF f \in s.activeFiles THEN ProcessFileQueue(CleanupFile(s, f)) ELSE s

\* cancelFile for a file that is not in the active set: it waits in the
\* queue, or was cancelled before
CancelFileNotActive(f) ==
    /\ f \notin activeFiles
    /\ history.cancelCalls < MaxCancelCalls
    /\ LET queued == \E i \in DOMAIN fileQueue : fileQueue[i] = f
       IN  /\ queued \/ f \in cancelled
           /\ Commit([CancelFileCall(Cur, f) EXCEPT
               !.history.cancelCalls = @ + 1,
               !.history.cancelledAgain = IF f \in cancelled THEN @ \cup {f} ELSE @,
               !.history.cancelledInQueue = IF queued THEN @ \cup {f} ELSE @])

\* cancelAll: the queue is cleared, then cancelFile for every file that was
\* in the active set
CancelAllCall(s) ==
    LET RECURSIVE CancelEach(_, _)
        CancelEach(st, ids) ==
            IF ids = {} THEN st
            ELSE LET f == CHOOSE x \in ids : \A y \in ids : x <= y
                 IN  CancelEach(CancelFileCall([st EXCEPT !.cancelled = @ \cup {f}], f),
                                ids \ {f})
    IN  CancelEach([s EXCEPT !.fileQueue = <<>>], s.activeFiles)

\* cancelAll; history: the files that were queued or active at the call
CancelAll ==
    /\ HasWork(Cur)
    /\ history.cancelCalls < MaxCancelCalls
    /\ Commit(CancelAllCall([Cur EXCEPT
           !.history.cancelCalls = @ + 1,
           !.history.dropped = @ \cup activeFiles
                                 \cup {fileQueue[i] : i \in DOMAIN fileQueue}]))

\* destroy: cancelAll, then the workers are terminated: none is available
\* any more and what was posted to them is never answered
Destroy ==
    /\ HasWork(Cur)
    /\ history.cancelCalls < MaxCancelCalls
    /\ Commit([CancelAllCall([Cur EXCEPT
               !.history.cancelCalls = @ + 1,
               !.history.dropped = @ \cup activeFiles
                                     \cup {fileQueue[i] : i \in DOMAIN fileQueue}])
           EXCEPT
           !.workerBusy = [w \in Workers |-> TRUE],
           !.uploads = {u \in @ : u.stage # "worker"},
           !.history.destroyed = TRUE])

\* One more failure of a callback or of a worker
Fault(s) == [s EXCEPT !.faults = @ + 1]

----------------------------------------------------------------------------
(* Completions of the injected callbacks and of the workers                *)

\* sendFileInfoToServer settles: a failure, a skip response, or a go-ahead
BeginReturns(f, result) ==
    /\ f \in calls.begin
    /\ LET s == [Cur EXCEPT !.calls.begin = @ \ {f}]
       IN  CASE result = "fail" ->
                  /\ faults < history.faultBudget
                  /\ Commit(ProcessFileQueue(HandleFileError(Fault(s), f)))
             [] result = "skip" ->
                  Commit(ProcessFileQueue(ProcessChunkQueue(
                      SkipUpload([s EXCEPT !.skipped = @ \cup {f}], f), f)))
             [] result = "ok" ->
                  Commit([s EXCEPT !.calls.parts = @ \cup {f}])

PartRecords(f) ==
    [partNumber : 0..(TotalChunks(UserFiles[f]) + 1), etag : Etags,
     partSize : {0, ChunkSize}]

\* What getFilePartsFromServer may answer for file f
PartsResults(f) ==
    {[isSuccess |-> FALSE, data |-> <<>>]} \cup
    {[isSuccess |-> TRUE, data |-> d] :
        d \in UNION {[1..n -> PartRecords(f)] : n \in 0..MaxReported}}

\* getFilePartsFromServer settles; initFileUpload runs to its end
PartsReturns(f, result) ==
    /\ f \in calls.parts
    /\ LET s == [Cur EXCEPT !.calls.parts = @ \ {f}]
           s1 == IF result.isSuccess /\ Len(result.data) > 0
                    /\ ~HasAllSameEtag(result.data)
                 THEN ResumeFromExistingParts(s, f, result.data)
                 ELSE s
           s2 == [s1 EXCEPT !.reported[f] = MapGetOr(s1.uploadedChunks, f, {})]
       IN  Commit(AfterInitFileUpload([s2 EXCEPT !.status[f] = "upload"], f))

\* The worker answers the chunk posted to it (or the chunk could not be read)
WorkerResponds(u, result) ==
    /\ u \in uploads
    /\ u.stage = "worker"
    /\ LET f == u.fileId
           s == [Cur EXCEPT !.uploads = @ \ {u}]
           idle == MarkWorkerIdle(s, u.worker)
       IN  CASE result = "processed" ->
                  IF f \in idle.activeFiles
                  THEN Commit([idle EXCEPT !.uploads = @ \cup
                          {Attempt(idle, f, WorkerCopy(u.chunk), "send", "worker", 0)}])
                  ELSE Commit(idle)
             [] result = "error" ->
                  /\ faults < history.faultBudget
                  /\ IF f \in idle.activeFiles
                     THEN Commit(HandleChunkError(Fault(idle), f, WorkerCopy(u.chunk)))
                     ELSE Commit(Fault(idle))
             [] result = "readError" ->
                  /\ faults < history.faultBudget
                  /\ Commit(MarkWorkerIdle(HandleChunkError(Fault(s), f, u.chunk),
                                           u.worker))

\* The completion of partNumber comes after that of a higher part
ArrivesLate(committed, partNumber) ==
    \E i \in DOMAIN committed : committed[i].partNumber > partNumber

\* sendFilePartToServer settles
UploadReturns(u, isSuccess) ==
    /\ u \in uploads
    /\ u.stage = "send"
    /\ LET f == u.fileId
           s == [Cur EXCEPT !.uploads = @ \ {u}]
       IN  IF isSuccess
           THEN Commit(HandleChunkSuccess(
                   [s EXCEPT !.parts[f] = Append(@,
                       [partNumber |-> u.chunk.partNumber,
                        partSize |-> u.chunk.partSize]),
                             !.unordered = IF ArrivesLate(s.parts[f], u.chunk.partNumber)
                                           THEN @ \cup {f} ELSE @],
                   f, u.chunk))
           ELSE /\ faults < history.faultBudget
                /\ Commit(HandleChunkError(Fault(s), f, u.chunk))

\* sendFileCompleteToServer settles
FinalizeReturns(f, isSuccess) ==
    /\ f \in calls.finalize
    /\ LET s == [Cur EXCEPT !.calls.finalize = @ \ {f}]
       IN  IF isSuccess
           THEN LET s1 == ProcessFileQueue(CleanupFile(
                            Emit(Emit(s, "success", f), "complete", f), f))
                IN  IF GetActiveCount(s1) = 0 /\ GetQueueLength(s1) = 0
                    THEN Commit(OnAllComplete(s1))
                    ELSE Commit(s1)
           ELSE /\ faults < history.faultBudget
                /\ Commit(HandleFileError(Fault(s), f))

Next ==
    \/ \E k \in 1..MaxBatch : AddFiles(k)
    \/ \E f \in FileIds : PauseFile(f)
    \/ \E f \in FileIds : ResumeFile(f)
    \/ \E f \in FileIds : CancelFile(f)
    \/ \E f \in FileIds : \E r \in {"fail", "skip", "ok"} : BeginReturns(f, r)
    \/ \E f \in calls.parts : \E r \in PartsResults(f) : PartsReturns(f, r)
    \/ \E u \in uploads : \E r \in {"processed", "error", "readError"} :
          WorkerResponds(u, r)
    \/ \E u \in uploads : \E ok \in BOOLEAN : UploadReturns(u, ok)
    \/ \E f \in FileIds : \E ok \in BOOLEAN : FinalizeReturns(f, ok)

Spec == Init /\ [][Next]_vars

SpecTwoSlots == InitTwoSlots /\ [][Next]_vars


\* The same uploader with a caller that does not pause files and a server
\* that reports no part or the first part as uploaded, where every callback
\* that is outstanding returns and every worker answers
NextFair ==
    \/ \E k \in 1..MaxBatch : AddFiles(k)
    \/ \E f \in FileIds : CancelFile(f)
    \/ \E f \in FileIds : \E r \in {"fail", "skip", "ok"} : BeginReturns(f, r)
    \/ \E f \in calls.parts :
          \E r \in {[isSuccess |-> FALSE, data |-> <<>>],
                    [isSuccess |-> TRUE,
                     data |-> <<[partNumber |-> 1, etag |-> "e1", partSize |-> 0]>>]} :
              PartsReturns(f, r)
    \/ \E u \in uploads : \E r \in {"processed", "error", "readError"} :
          WorkerResponds(u, r)
    \/ \E u \in uploads : \E ok \in BOOLEAN : UploadReturns(u, ok)
    \/ \E f \in FileIds : \E ok \in BOOLEAN : FinalizeReturns(f, ok)

SpecFair ==
    /\ Init /\ [][NextFair]_vars
    /\ WF_vars(\E f \in FileIds : BeginReturns(f, "ok"))
    /\ WF_vars(\E f \in calls.parts :
                  PartsReturns(f, [isSuccess |-> FALSE, data |-> <<>>]))
    /\ WF_vars(\E u \in uploads : WorkerResponds(u, "processed"))
    /\ WF_vars(\E u \in uploads : UploadReturns(u, TRUE))
    /\ WF_vars(\E f \in FileIds : FinalizeReturns(f, TRUE))

SpecFaulty == InitFaulty /\ [][NextFair]_vars

\* The same uploader with a caller that does not pause files, and that also
\* cancels files that are not active, cancels all files, or destroys the
\* uploader
NextCalls ==
    \/ \E k \in 1..MaxBatch : AddFiles(k)
    \/ \E f \in FileIds : CancelFile(f)
    \/ \E f \in FileIds : \E r \in {"fail", "skip", "ok"} : BeginReturns(f, r)
    \/ \E f \in calls.parts : \E r \in PartsResults(f) : PartsReturns(f, r)
    \/ \E u \in uploads : \E r \in {"processed", "error", "readError"} :
          WorkerResponds(u, r)
    \/ \E u \in uploads : \E ok \in BOOLEAN : UploadReturns(u, ok)
    \/ \E f \in FileIds : \E ok \in BOOLEAN : FinalizeReturns(f, ok)
    \/ \E f \in FileIds : CancelFileNotActive(f)
    \/ CancelAll
    \/ Destroy

SpecCalls == Init /\ [][NextCalls]_vars

----------------------------------------------------------------------------
(* prepareChunkQueue on its own, for any file size and chunk size          *)

InitChunks ==
    /\ Constructed(MaxConcurrentFiles)
    /\ wm = NoWorkerManager
    /\ limiter = NoLimiter
    /\ persistence = NoPersistence
    /\ probe \in {[op |-> "prepare", fileSize |-> S, chunkSize |-> C,
                   done |-> FALSE, chunks |-> <<>>] :
                      S \in 1..MaxFileSize, C \in 1..MaxChunkSize}

PrepareProbe ==
    /\ probe.op = "prepare"
    /\ ~probe.done
    /\ Commit([Cur EXCEPT !.probe.done = TRUE,
                          !.probe.chunks = BuildChunks(probe.fileSize, probe.chunkSize)])

SpecChunks == InitChunks /\ [][PrepareProbe]_vars

----------------------------------------------------------------------------
(* resumeFromExistingParts on its own, after prepareChunkQueue, for any    *)
(* list of parts the server may report                                     *)

ValidFileIds == {f \in FileIds : ValidateFile(UserFiles[f])}

InitResume ==
    /\ Constructed(MaxConcurrentFiles)
    /\ wm = NoWorkerManager
    /\ limiter = NoLimiter
    /\ persistence = NoPersistence
    /\ \E f \in ValidFileIds :
          \E d \in UNION {[1..n -> PartRecords(f)] : n \in 0..MaxReported} :
              probe = [op |-> "resume", fileId |-> f, parts |-> d, stage |-> "new"]

ProbePrepare ==
    /\ probe.op = "resume"
    /\ probe.stage = "new"
    /\ Commit([PrepareChunkQueue(Cur, probe.fileId) EXCEPT !.probe.stage = "prepared"])

ProbeResume ==
    /\ probe.op = "resume"
    /\ probe.stage = "prepared"
    /\ Commit([ResumeFromExistingParts(Cur, probe.fileId, probe.parts)
                  EXCEPT !.probe.stage = "done"])

SpecResume == InitResume /\ [][ProbePrepare \/ ProbeResume]_vars

----------------------------------------------------------------------------
(* WorkerManager (src/modules/WorkerManager.ts) with its caller            *)
(* UploadManager.uploadChunk.  The record wm holds the manager's fields    *)
(* (workerPool, workerBusy, workerTasks, useWorker), the workers' side     *)
(* (ready: workers whose 'ready' message is still under way; inbox: the    *)
(* tasks a worker has received and not answered) and what became of the    *)
(* tasks (direct, done, lost).                                             *)

WorkerIds == 1..MaxWorkerCount
TaskFiles == {f \in FileIds : ValidateFile(UserFiles[f])}

\* this.useWorker && this.workerPool.length > 0
IsEnabled(m) == m.useWorker /\ m.workerPool # {}

\* An initialize that creates the workers whatever the configuration says
InitializeAlways(useWorker, workerDefined, workerCount) ==
    [op |-> "workers",
     useWorker |-> useWorker,
     workerPool |-> 1..workerCount,
     workerBusy |-> [w \in 1..workerCount |-> FALSE],
     workerTasks |-> <<>>,
     ready |-> 1..workerCount,
     inbox |-> [w \in WorkerIds |-> {}],
     crashed |-> {},
     direct |-> {},
     done |-> {},
     lost |-> {},
     tasks |-> <<>>,
     aborts |-> 0,
     slotless |-> ~useWorker \/ ~workerDefined]

\* The constructor followed by initialize: no worker when useWorker is false
\* or Worker is undefined, otherwise workerCount workers, all idle
Initialize(useWorker, workerDefined, workerCount) ==
    LET count == IF ~useWorker \/ ~workerDefined THEN 0 ELSE workerCount
    IN  [op |-> "workers",
         useWorker |-> useWorker,
         workerPool |-> 1..count,
         workerBusy |-> [w \in 1..count |-> FALSE],
         workerTasks |-> <<>>,
         ready |-> 1..count,
         inbox |-> [w \in WorkerIds |-> {}],
         crashed |-> {},
         direct |-> {},
         done |-> {},
         lost |-> {},
         tasks |-> <<>>,
         aborts |-> 0,
         slotless |-> ~useWorker \/ ~workerDefined]

\* getAvailableWorker: the first entry of workerBusy that is not busy
\* (0: null); entries are in the order the workers were created
WorkerManagerGetAvailableWorker(m) ==
    LET idle == {w \in DOMAIN m.workerBusy : ~m.workerBusy[w]}
    IN  IF idle = {} THEN 0
        ELSE CHOOSE w \in idle : \A v \in idle : w <= v

\* postTask: the worker it picked (0: it returned false) and the new state
PostTask(m, task) ==
    LET worker == WorkerManagerGetAvailableWorker(m)
    IN  IF ~IsEnabled(m) \/ worker = 0
        THEN [worker |-> 0, state |-> m]
        ELSE [worker |-> worker,
              state |-> [m EXCEPT !.workerBusy = MapSet(@, worker, TRUE),
                                  !.workerTasks = MapSet(@, worker, task),
                                  !.inbox[worker] = @ \cup {task}]]

\* retryInitialize as uploadChunk reaches it: the pool is not empty
RetryInitialize(m) == m.workerPool # {}

\* worker.onmessage: the worker is marked idle and its task entry deleted
\* (then the message goes to the orchestrator's handler)
OnMessage(m, worker) ==
    [m EXCEPT !.workerBusy = MapSet(@, worker, FALSE),
              !.workerTasks = MapDelete(@, worker)]

\* A handleWorkerError that leaves the failed worker's busy entry behind
HandleWorkerErrorKeepingEntry(m, worker) ==
    LET m1 == IF worker \in m.workerPool
              THEN [m EXCEPT !.workerPool = @ \ {worker},
                             !.workerTasks = MapDelete(@, worker)]
              ELSE m
    IN  IF m1.workerPool = {} THEN [m1 EXCEPT !.useWorker = FALSE] ELSE m1

\* handleWorkerError: evict and terminate the worker; disable when none is left
HandleWorkerError(m, worker) ==
    LET m1 == IF worker \in m.workerPool
              THEN [m EXCEPT !.workerPool = @ \ {worker},
                             !.workerBusy = MapDelete(@, worker),
                             !.workerTasks = MapDelete(@, worker)]
              ELSE m
    IN  IF m1.workerPool = {} THEN [m1 EXCEPT !.useWorker = FALSE] ELSE m1

\* worker.onerror
OnError(m, worker) ==
    HandleWorkerError([m EXCEPT !.workerBusy = MapSet(@, worker, FALSE),
                                !.workerTasks = MapDelete(@, worker)], worker)

\* abortTask(fileId) without a part number: every worker whose task entry is
\* for the file gets an 'abort' message (which the worker only logs) and is
\* marked idle
AbortTask(m, fileId) ==
    LET hit == {w \in DOMAIN m.workerTasks : m.workerTasks[w].fileId = fileId}
    IN  [m EXCEPT !.workerBusy = [w \in DOMAIN @ |-> IF w \in hit THEN FALSE ELSE @[w]],
                  !.workerTasks = [w \in DOMAIN @ \ hit |-> @[w]]]

InitWorkers ==
    /\ Constructed(MaxConcurrentFiles)
    /\ probe = NoProbe
    /\ limiter = NoLimiter
    /\ persistence = NoPersistence
    /\ \E useWorker \in BOOLEAN : \E workerDefined \in BOOLEAN :
          \E workerCount \in 1..MaxWorkerCount :
              wm = Initialize(useWorker, workerDefined, workerCount)

\* UploadManager.uploadChunk for a chunk of file f
UploadChunk(f) ==
    /\ Len(wm.tasks) < MaxTasks
    /\ LET task == [id |-> Len(wm.tasks) + 1, fileId |-> f]
           m == [wm EXCEPT !.tasks = Append(@, task)]
           first == PostTask(m, task)
           second == PostTask(m, task)
       IN  IF IsEnabled(m)
           THEN IF first.worker # 0
                THEN Commit([Cur EXCEPT !.wm = first.state])
                ELSE IF RetryInitialize(m) /\ second.worker # 0
                THEN Commit([Cur EXCEPT !.wm = second.state])
                ELSE Commit([Cur EXCEPT !.wm = [m EXCEPT !.direct = @ \cup {task}]])
           ELSE Commit([Cur EXCEPT !.wm = [m EXCEPT !.direct = @ \cup {task}]])

\* The 'ready' message a worker posts when its script has started arrives
WorkerReady(w) ==
    /\ w \in wm.ready
    /\ Commit([Cur EXCEPT !.wm = [OnMessage(wm, w) EXCEPT !.ready = @ \ {w}]])

\* The worker's answer ('response' or 'error') to a task arrives; a worker
\* posts 'ready' before any answer
WorkerAnswers(w, task) ==
    /\ task \in wm.inbox[w]
    /\ w \notin wm.ready
    /\ Commit([Cur EXCEPT !.wm = [OnMessage(wm, w) EXCEPT !.inbox[w] = @ \ {task},
                                                         !.done = @ \cup {task}]])

\* The worker raises an error event (its script failed to load or threw);
\* terminate discards whatever the worker had under way
WorkerFails(w) ==
    /\ w \in wm.workerPool
    /\ Commit([Cur EXCEPT !.wm = [OnError(wm, w) EXCEPT !.crashed = @ \cup {w},
                                                       !.ready = @ \ {w},
                                                       !.lost = @ \cup wm.inbox[w],
                                                       !.inbox[w] = {}]])

\* pauseFile / cancelFile of the orchestrator: abortFileTasks(fileId)
AbortFileTasks(f) ==
    /\ wm.aborts < MaxAborts
    /\ Commit([Cur EXCEPT !.wm = [AbortTask(wm, f) EXCEPT !.aborts = @ + 1]])

\* sendFilePartToServer of a chunk uploaded directly settles
DirectReturns(task) ==
    /\ task \in wm.direct
    /\ Commit([Cur EXCEPT !.wm.direct = @ \ {task}, !.wm.done = @ \cup {task}])

NextWorkers ==
    \/ \E f \in TaskFiles : UploadChunk(f)
    \/ \E w \in WorkerIds : WorkerReady(w)
    \/ \E w \in WorkerIds : \E task \in wm.inbox[w] : WorkerAnswers(w, task)
    \/ \E w \in WorkerIds : WorkerFails(w)
    \/ \E f \in TaskFiles : AbortFileTasks(f)
    \/ \E task \in wm.direct : DirectReturns(task)

SpecWorkers == InitWorkers /\ [][NextWorkers]_vars

\* The direct upload of a chunk settles eventually
SpecWorkersFair ==
    SpecWorkers /\ \A i \in 1..MaxTasks : \A f \in TaskFiles :
                      WF_vars(DirectReturns([id |-> i, fileId |-> f]))

----------------------------------------------------------------------------
(* SpeedLimiter (src/modules/SpeedLimiter.ts).  Times are in milliseconds; *)
(* the bucket is kept in thousandths of a byte, so that the tokens added   *)
(* in t ms at c bytes per second are exactly t * c.                        *)

Capacities == 0..MaxCapacity \cup {TestCapacity}
Requests == 1..MaxRequest \cup {TestCapacity, 2 * TestCapacity}
\* by how many milliseconds Date.now() moves between two calls
TickSizes == {1, 500, 1000}

\* new SpeedLimiter(maxBytesPerSecond, enabled)
NewSpeedLimiter(maxBytesPerSecond, enabled) ==
    [op |-> "limiter",
     maxBytesPerSecond |-> maxBytesPerSecond,
     bucket |-> 1000 * maxBytesPerSecond,
     lastRefill |-> 0,
     enabled |-> enabled,
     now |-> 0,
     calls |-> 0,
     ticks |-> 0,
     log |-> <<>>]

SetEnabled(l, enabled) == [l EXCEPT !.enabled = enabled]

SetMaxBytesPerSecond(l, maxBytesPerSecond) ==
    [l EXCEPT !.maxBytesPerSecond = maxBytesPerSecond,
              !.bucket = Min(@, 1000 * maxBytesPerSecond)]

\* A refill that does not clamp the bucket to the capacity
RefillBucketUnclamped(l) ==
    IF l.now - l.lastRefill > 0
    THEN [l EXCEPT !.bucket = @ + (l.now - l.lastRefill) * l.maxBytesPerSecond,
                   !.lastRefill = l.now]
    ELSE l

RefillBucket(l) ==
    IF l.now - l.lastRefill > 0
    THEN [l EXCEPT !.bucket = Min(@ + (l.now - l.lastRefill) * l.maxBytesPerSecond,
                                  1000 * l.maxBytesPerSecond),
                   !.lastRefill = l.now]
    ELSE l

\* A requestBytes that does not look at the enabled flag
RequestBytesAlwaysLimited(l, bytes) ==
    IF l.maxBytesPerSecond <= 0 THEN [state |-> l, wait |-> 0]
    ELSE LET r == RefillBucket(l)
         IN  IF 1000 * bytes <= r.bucket
             THEN [state |-> [r EXCEPT !.bucket = @ - 1000 * bytes], wait |-> 0]
             ELSE [state |-> [r EXCEPT !.bucket = 0],
                   wait |-> ((1000 * bytes - r.bucket) + r.maxBytesPerSecond - 1)
                                \div r.maxBytesPerSecond]

\* requestBytes: the state it leaves and the wait in ms it returns
RequestBytes(l, bytes) ==
    IF ~l.enabled \/ l.maxBytesPerSecond <= 0 THEN [state |-> l, wait |-> 0]
    ELSE LET r == RefillBucket(l)
         IN  IF 1000 * bytes <= r.bucket
             THEN [state |-> [r EXCEPT !.bucket = @ - 1000 * bytes], wait |-> 0]
             ELSE [state |-> [r EXCEPT !.bucket = 0],
                   wait |-> ((1000 * bytes - r.bucket) + r.maxBytesPerSecond - 1)
                                \div r.maxBytesPerSecond]

Reset(l) == [l EXCEPT !.bucket = 1000 * l.maxBytesPerSecond, !.lastRefill = l.now]

InitLimiter ==
    /\ Constructed(MaxConcurrentFiles)
    /\ probe = NoProbe
    /\ wm = NoWorkerManager
    /\ persistence = NoPersistence
    /\ \E c \in Capacities : \E enabled \in BOOLEAN :
          limiter = NewSpeedLimiter(c, enabled)

Called(l) == [l EXCEPT !.calls = @ + 1]

CallRequestBytes(bytes) ==
    /\ limiter.calls < MaxLimiterCalls
    /\ LET r == RequestBytes(limiter, bytes)
       IN  Commit([Cur EXCEPT !.limiter =
               [Called(r.state) EXCEPT !.log = Append(@,
                   [bytes |-> bytes, wait |-> r.wait, at |-> limiter.now,
                    call |-> limiter.calls + 1])]])

CallSetEnabled(enabled) ==
    /\ limiter.calls < MaxLimiterCalls
    /\ Commit([Cur EXCEPT !.limiter = Called(SetEnabled(limiter, enabled))])

CallSetMaxBytesPerSecond(c) ==
    /\ limiter.calls < MaxLimiterCalls
    /\ Commit([Cur EXCEPT !.limiter = Called(SetMaxBytesPerSecond(limiter, c))])

CallReset ==
    /\ limiter.calls < MaxLimiterCalls
    /\ Commit([Cur EXCEPT !.limiter = Called(Reset(limiter))])

\* Date.now() moves on
Tick(d) ==
    /\ limiter.ticks < MaxTicks
    /\ Commit([Cur EXCEPT !.limiter.now = @ + d, !.limiter.ticks = @ + 1])

NextLimiter ==
    \/ \E bytes \in Requests : CallRequestBytes(bytes)
    \/ \E enabled \in BOOLEAN : CallSetEnabled(enabled)
    \/ \E c \in Capacities : CallSetMaxBytesPerSecond(c)
    \/ CallReset
    \/ \E d \in TickSizes : Tick(d)

SpecLimiter == InitLimiter /\ [][NextLimiter]_vars

----------------------------------------------------------------------------
(* QueuePersistence (src/modules/QueuePersistence.ts).  A JavaScript       *)
(* object is a function from the names of its defined properties to their  *)
(* values; an item of localStorage is <<>> when the key is absent and      *)
(* <<value>> otherwise.  Times are in milliseconds.                        *)

\* maxAge of loadQueue, loadChunkStatus and cleanupExpiredData
MaxAge == 24 * 60 * 60 * 1000
\* the age of the expired record of the tests
ExpiredAge == 25 * 60 * 60 * 1000

PersistedIds == 1..2

Has(object, key) == key \in DOMAIN object

\* The properties saveQueue copies; JSON.stringify leaves out those whose
\* value is undefined.
PersistedFields ==
    {"fileId", "fileName", "fileSize", "uploadedSize", "progress", "status",
     "mimeType", "lastUpdated", "totalChunks", "uploadInfo"}

\* The FileInfo objects handed to saveQueue: the record of the tests with
\* its optional properties (file 1) or without them (file 2), and with a
\* lastUpdated that is missing, the current time, or ExpiredAge before it.
MockFileInfo(fileId, lastUpdated, full) ==
    LET required == [fileId |-> fileId, fileName |-> "test.txt", fileSize |-> 1024,
                     uploadedSize |-> 512, progress |-> 50, status |-> "upload",
                     file |-> "File"]
        stamped == IF lastUpdated = Undefined THEN required
                   ELSE required @@ [lastUpdated |-> lastUpdated]
    IN  IF full
        THEN stamped @@ [mimeType |-> "text/plain", totalChunks |-> 2,
                         errorMessage |-> "failed",
                         uploadInfo |-> [parts |-> <<[etag |-> "e1", partNumber |-> 1,
                                                      partSize |-> 512]>>]]
        ELSE stamped

FileInfosAt(now) ==
    {MockFileInfo(fileId, lastUpdated, fileId = 1) :
        fileId \in PersistedIds,
        lastUpdated \in {Undefined, now, now - ExpiredAge}}

NewQueuePersistence(enabled) ==
    [op |-> "persistence", enabled |-> enabled,
     queueItem |-> <<>>, chunkItem |-> <<>>,
     now |-> 2 * ExpiredAge, ticks |-> 0, calls |-> 0,
     saved |-> <<>>, loads |-> 0, loaded |-> <<>>, chunkLoaded |-> <<>>]

IsStorageAvailable(p) == p.enabled

\* one element of the array saveQueue serialises
PersistedFileInfo(file) ==
    [key \in {k \in PersistedFields : Has(file, k)} |-> file[key]]

SaveQueue(p, files) ==
    IF ~IsStorageAvailable(p) THEN p
    ELSE [p EXCEPT !.queueItem =
              <<[i \in 1..Len(files) |-> PersistedFileInfo(files[i])]>>]

LoadAllChunkStatus(p) ==
    IF p.chunkItem = <<>> THEN <<>> ELSE p.chunkItem[1]

SaveChunkStatus(p, fileId, uploaded, pending) ==
    IF ~IsStorageAvailable(p) THEN p
    ELSE LET chunkStatus == [uploaded |-> uploaded, pending |-> pending,
                             timestamp |-> p.now]
             allChunkStatus == LoadAllChunkStatus(p)
         IN  [p EXCEPT !.chunkItem =
                 <<[f \in DOMAIN allChunkStatus \cup {fileId} |->
                       IF f = fileId THEN chunkStatus ELSE allChunkStatus[f]]>>]

LoadQueueUnfiltered(p) ==
    IF ~IsStorageAvailable(p) THEN <<>>
    ELSE IF p.queueItem = <<>> THEN <<>>
    ELSE p.queueItem[1]

LoadQueue(p) ==
    IF ~IsStorageAvailable(p) THEN <<>>
    ELSE IF p.queueItem = <<>> THEN <<>>
    ELSE LET Kept(file) ==
                 /\ Has(file, "lastUpdated")
                 /\ file.lastUpdated # 0
                 /\ p.now - file.lastUpdated <= MaxAge
         IN  SelectSeq(p.queueItem[1], Kept)

RemoveChunkStatus(p, fileId) ==
    LET allChunkStatus == LoadAllChunkStatus(p)
    IN  [p EXCEPT !.chunkItem =
            <<[f \in DOMAIN allChunkStatus \ {fileId} |-> allChunkStatus[f]]>>]

\* the state afterwards and the value returned (<<>>: null)
LoadChunkStatus(p, fileId) ==
    IF ~IsStorageAvailable(p) THEN [state |-> p, result |-> <<>>]
    ELSE LET allChunkStatus == LoadAllChunkStatus(p)
         IN  IF fileId \notin DOMAIN allChunkStatus
             THEN [state |-> p, result |-> <<>>]
             ELSE IF p.now - allChunkStatus[fileId].timestamp > MaxAge
             THEN [state |-> RemoveChunkStatus(p, fileId), result |-> <<>>]
             ELSE [state |-> p,
                   result |-> <<[uploaded |-> allChunkStatus[fileId].uploaded,
                                 pending |-> allChunkStatus[fileId].pending]>>]

RemoveFile(p, fileId) ==
    IF ~IsStorageAvailable(p) THEN p
    ELSE LET NotRemoved(file) == file.fileId # fileId
             filteredQueue == SelectSeq(LoadQueue(p), NotRemoved)
         IN  RemoveChunkStatus([p EXCEPT !.queueItem = <<filteredQueue>>], fileId)

ClearAll(p) ==
    IF ~IsStorageAvailable(p) THEN p
    ELSE [p EXCEPT !.queueItem = <<>>, !.chunkItem = <<>>]

QueuePersistenceSetEnabled(p, enabled) ==
    LET q == [p EXCEPT !.enabled = enabled]
    IN  IF ~enabled THEN ClearAll(q) ELSE q

CleanupExpiredData(p) ==
    IF ~IsStorageAvailable(p) THEN p
    ELSE LET allChunkStatus == LoadAllChunkStatus(p)
             fresh == {f \in DOMAIN allChunkStatus :
                          p.now - allChunkStatus[f].timestamp <= MaxAge}
         IN  [p EXCEPT !.queueItem = <<LoadQueue(p)>>,
                       !.chunkItem = <<[f \in fresh |-> allChunkStatus[f]]>>]

InitPersistence ==
    /\ Constructed(MaxConcurrentFiles)
    /\ probe = NoProbe
    /\ wm = NoWorkerManager
    /\ limiter = NoLimiter
    /\ \E enabled \in BOOLEAN : persistence = NewQueuePersistence(enabled)

\* saved remembers the list last handed to an enabled saveQueue, until
\* removeFile, clearAll or setEnabled(false) is called.
CallSaveQueue(files) ==
    /\ persistence.calls < MaxPersistenceCalls
    /\ Commit([Cur EXCEPT !.persistence =
           [SaveQueue(persistence, files) EXCEPT !.calls = @ + 1,
               !.saved = IF IsStorageAvailable(persistence) THEN <<files>> ELSE @]])

CallLoadQueue ==
    /\ persistence.calls < MaxPersistenceCalls
    /\ Commit([Cur EXCEPT !.persistence =
           [persistence EXCEPT !.calls = @ + 1,
               !.loads = @ + 1, !.loaded = <<LoadQueue(persistence)>>]])

CallSaveChunkStatus(fileId, uploaded, pending) ==
    /\ persistence.calls < MaxPersistenceCalls
    /\ Commit([Cur EXCEPT !.persistence = [SaveChunkStatus(persistence, fileId, uploaded, pending)
               EXCEPT !.calls = @ + 1]])

CallLoadChunkStatus(fileId) ==
    /\ persistence.calls < MaxPersistenceCalls
    /\ LET r == LoadChunkStatus(persistence, fileId)
       IN  Commit([Cur EXCEPT !.persistence =
               [r.state EXCEPT !.calls = @ + 1,
               !.chunkLoaded = <<r.result>>]])

CallRemoveFile(fileId) ==
    /\ persistence.calls < MaxPersistenceCalls
    /\ Commit([Cur EXCEPT !.persistence =
           [RemoveFile(persistence, fileId) EXCEPT !.calls = @ + 1,
               !.saved = <<>>]])

CallClearAll ==
    /\ persistence.calls < MaxPersistenceCalls
    /\ Commit([Cur EXCEPT !.persistence =
           [ClearAll(persistence) EXCEPT !.calls = @ + 1,
               !.saved = <<>>]])

CallQueuePersistenceSetEnabled(enabled) ==
    /\ persistence.calls < MaxPersistenceCalls
    /\ Commit([Cur EXCEPT !.persistence =
           [QueuePersistenceSetEnabled(persistence, enabled) EXCEPT !.calls = @ + 1,
               !.saved = IF enabled THEN @ ELSE <<>>]])

CallCleanupExpiredData ==
    /\ persistence.calls < MaxPersistenceCalls
    /\ Commit([Cur EXCEPT !.persistence =
           [CleanupExpiredData(persistence) EXCEPT !.calls = @ + 1]])

\* Date.now() moves on
ClockTick(d) ==
    /\ persistence.ticks < MaxClockTicks
    /\ Commit([Cur EXCEPT !.persistence.now = @ + d, !.persistence.ticks = @ + 1])

NextPersistence ==
    \/ \E n \in 0..MaxSaved : \E files \in [1..n -> FileInfosAt(persistence.now)] :
          CallSaveQueue(files)
    \/ CallLoadQueue
    \/ \E fileId \in PersistedIds : \E uploaded \in {<<>>, <<2, 1>>} :
          \E pending \in {<<>>, <<2, 1>>} :
              CallSaveChunkStatus(fileId, uploaded, pending)
    \/ \E fileId \in PersistedIds : CallLoadChunkStatus(fileId)
    \/ \E fileId \in PersistedIds : CallRemoveFile(fileId)
    \/ CallClearAll
    \/ \E enabled \in BOOLEAN : CallQueuePersistenceSetEnabled(enabled)
    \/ CallCleanupExpiredData
    \/ \E d \in {1, MaxAge} : ClockTick(d)

SpecPersistence == InitPersistence /\ [][NextPersistence]_vars

----------------------------------------------------------------------------
(* Properties                                                              *)

PartsOf(f) == 1..TotalChunks(UserFiles[f])

AttemptsOf(ups, f) == {u \in ups : u.fileId = f}

\* C1: in every reachable state the number of files in the active set is at
\* most maxConcurrentFiles.
C1_ActiveFilesBounded == Cardinality(activeFiles) <= maxConcurrentFiles

\* The active set is full while another file waits in the file queue.
C1_Witness ==
    /\ Cardinality(activeFiles) = maxConcurrentFiles
    /\ fileQueue # <<>>

\* C2: in every reachable state every file has at most maxConcurrentChunks
\* chunks in its pending set.
C2_PendingChunksBounded ==
    \A f \in FileIds : GetPendingChunkCount(Cur, f) <= MaxConcurrentChunks

\* A file that was paused and resumed and has had a chunk requeued has a full
\* pending set while chunks still wait.
C2_Witness ==
    \E f \in activeFiles :
        /\ GetPendingChunkCount(Cur, f) = MaxConcurrentChunks
        /\ GetRemainingChunkCount(Cur, f) > 0
        /\ f \in everPaused
        /\ status[f] = "upload"
        /\ \E p \in PartsOf(f) : requeues[f][p] > 0

\* C3: no two outstanding attempts are for the same part of the same file.
C3_OneAttemptPerChunk ==
    \A u, v \in uploads :
        (u.fileId = v.fileId /\ u.chunk.partNumber = v.chunk.partNumber) => u = v

\* A chunk that failed and was requeued is outstanding again.
C3_Witness ==
    \E u \in uploads :
        /\ u.fileId \in activeFiles
        /\ requeues[u.fileId][u.chunk.partNumber] > 0
        /\ u.chunk.partNumber \in pendingChunks[u.fileId]

C5_RequeuedAtMostMaxRetries ==
    \A f \in FileIds : \A p \in PartsOf(f) : requeues[f][p] <= MaxRetries

\* C6: in the step in which a file's status becomes error the error callback
\* is notified with it, it leaves the active set and the head of the file queue
\* is admitted; afterwards it stays out of the active set and no attempt is
\* started for any of its chunks.
C6_ErrorNotifiesFreesAndStops ==
    [][\A f \in FileIds :
        /\ (status[f] # "error" /\ status'[f] = "error") =>
              /\ <<"error", f>> \in emitted'
              /\ f \notin activeFiles'
              /\ fileQueue # <<>> => Head(fileQueue) \in activeFiles'
        /\ status[f] = "error" =>
              /\ f \notin activeFiles'
              /\ AttemptsOf(uploads', f) \subseteq uploads
       ]_vars

\* A file has just failed with chunk attempts outstanding, and the file
\* that waited behind it has been admitted.
C6_Witness ==
    \E f \in FileIds :
        /\ status[f] = "error"
        /\ <<"error", f>> \in emitted
        /\ AttemptsOf(uploads, f) # {}
        /\ \E g \in activeFiles : g \in calls.begin

\* C7: a file's status is complete only once sendFileCompleteToServer has
\* succeeded or sendFileInfoToServer has answered with skipUpload.
C7_CompleteOnlyAfterFinalize ==
    \A f \in FileIds : status[f] = "complete" => f \notin calls.finalize

\* C8: in the step in which cancelFile removes an active file, the file leaves
\* the active set, its waiting queue, pending set and uploaded set are deleted,
\* and its slot goes to the head of the file queue (or stays free).
C8_CancelFreesEverything ==
    [][\A f \in FileIds :
        (f \in cancelled' /\ f \notin cancelled) =>
            /\ f \notin activeFiles'
            /\ f \notin DOMAIN chunkQueue'
            /\ f \notin DOMAIN pendingChunks'
            /\ f \notin DOMAIN uploadedChunks'
            /\ fileQueue # <<>> => Head(fileQueue) \in activeFiles'
            /\ fileQueue = <<>> => Cardinality(activeFiles') < maxConcurrentFiles
       ]_vars

\* A file was cancelled with chunk attempts in flight, its chunk state is
\* gone and the next file has its slot.
C8_Witness ==
    \E f \in cancelled :
        /\ Cardinality(AttemptsOf(uploads, f)) = MaxConcurrentChunks
        /\ f \notin DOMAIN chunkQueue
        /\ activeFiles # {}
        /\ f \notin activeFiles

\* C9: a cancelled file has no waiting, pending or uploaded chunk state and
\* no progress, success or error notification is raised for it.
C9_CancelledResultsDiscarded ==
    \A f \in cancelled :
        /\ f \notin DOMAIN chunkQueue
        /\ f \notin DOMAIN pendingChunks
        /\ f \notin DOMAIN uploadedChunks
        /\ emitted \cap {<<"progress", f>>, <<"success", f>>, <<"error", f>>} = {}

C11_IdleTransitionNotifies ==
    [][(HasWork(Cur) /\ activeFiles' = {} /\ fileQueue' = <<>>) =>
            <<"allComplete", 0>> \in emitted']_vars

\* C12: between two arrivals of work the all-complete callback is invoked at
\* most once, and only with the active set and the file queue empty.
C12_AllCompleteOncePerIdleTransition ==
    /\ idleNotifications <= 1
    /\ <<"allComplete", 0>> \in emitted => (activeFiles = {} /\ fileQueue = <<>>)

\* C13: in every step that notifies the success or the error callback for a
\* file, onFileComplete is notified for that file too.
C13_FinishedFileGetsComplete ==
    [][\A f \in FileIds :
          (<<"success", f>> \in emitted' \/ <<"error", f>> \in emitted') =>
              <<"complete", f>> \in emitted']_vars

\* C14: while a begin or list-parts callback is outstanding, a file waits in
\* the queue only if the active set is full.
C14_StuckCallbackHoldsOnlyItsSlot ==
    (calls.begin \cup calls.parts # {} /\ fileQueue # <<>>) =>
        Cardinality(activeFiles) >= maxConcurrentFiles

AddedIn(events) == {f \in FileIds : <<"added", f>> \in events}

\* C15: an addFiles call that adds k files to an idle uploader leaves
\* min(k, maxConcurrentFiles) of them active and the others queued.
C15_AdmitsMinOfAddedAndLimit ==
    [][(~HasWork(Cur) /\ AddedIn(emitted') # {}) =>
          LET k == Cardinality(AddedIn(emitted'))
          IN  /\ Cardinality(activeFiles') = Min(k, maxConcurrentFiles)
              /\ Len(fileQueue') = k - Min(k, maxConcurrentFiles)]_vars

\* ceil(S / C), stated without the division prepareChunkQueue uses
CeilDiv(S, C) == CHOOSE n \in 0..S : (n - 1) * C < S /\ S <= n * C

\* C16: for every file size S > 0 and chunk size C > 0 the chunk list has
\* ceil(S/C) chunks numbered 1..ceil(S/C) in order, whose ranges are
\* contiguous from 0 to S, each of size end - start with 0 < size <= C.
C16_ChunksTileTheFile ==
    (probe.op = "prepare" /\ probe.done) =>
        LET q == probe.chunks
            S == probe.fileSize
            C == probe.chunkSize
            n == CeilDiv(S, C)
        IN  /\ Len(q) = n
            /\ \A i \in 1..Len(q) :
                  /\ q[i].partNumber = i
                  /\ q[i].start = (IF i = 1 THEN 0 ELSE q[i - 1].end)
                  /\ q[i].partSize = q[i].end - q[i].start
                  /\ 0 < q[i].partSize
                  /\ q[i].partSize <= C
            /\ q[Len(q)].end = S

\* A file of several chunks whose last chunk is shorter than the others.
C16_Witness ==
    /\ probe.op = "prepare"
    /\ probe.done
    /\ Len(probe.chunks) >= 3
    /\ probe.chunks[Len(probe.chunks)].partSize < probe.chunkSize

\* The lists the claim says are rejected: one etag on more than one part, or
\* a part number outside 1..ceil(fileSize / chunkSize)
Rejected(f, d) ==
    \/ Len(d) > 1 /\ \A i, j \in DOMAIN d : d[i].etag = d[j].etag
    \/ \E i \in DOMAIN d : d[i].partNumber \notin 1..CeilDiv(UserFiles[f], ChunkSize)

\* C18: reconciliation is all-or-nothing: when the reported parts all have
\* the same etag (and there is more than one) or any part number is outside
\* 1..ceil(fileSize / chunkSize), no part is marked uploaded and the waiting
\* queue is unchanged.
C18_RejectedListChangesNothing ==
    [][(/\ probe.op = "resume"
        /\ probe.stage = "prepared"
        /\ probe'.stage = "done"
        /\ Rejected(probe.fileId, probe.parts)) =>
            /\ uploadedChunks'[probe.fileId] = {}
            /\ uploadedChunks' = uploadedChunks
            /\ chunkQueue' = chunkQueue]_vars

\* A list of one valid part and one part beyond the last chunk, with
\* different etags, was reconciled and nothing was marked.
C18_Witness ==
    /\ probe.op = "resume"
    /\ probe.stage = "done"
    /\ Len(probe.parts) = 2
    /\ probe.parts[1].partNumber = 1
    /\ probe.parts[2].partNumber = TotalChunks(UserFiles[probe.fileId]) + 1
    /\ probe.parts[1].etag # probe.parts[2].etag
    /\ uploadedChunks[probe.fileId] = {}
    /\ Len(chunkQueue[probe.fileId]) = TotalChunks(UserFiles[probe.fileId])

\* C17: once a file's reported parts have been accepted, every reported part
\* number is in the uploaded set and not in the waiting queue, its size is
\* part of the file's uploadedSize, no attempt is made for it and it is not
\* among the parts uploaded before finalize.
C17_ReportedPartsCountAndAreNotUploadedAgain ==
    \A f \in activeFiles :
        f \in DOMAIN uploadedChunks =>
            /\ reported[f] \subseteq uploadedChunks[f]
            /\ \A i \in DOMAIN chunkQueue[f] : chunkQueue[f][i].partNumber \notin reported[f]
            /\ \A u \in AttemptsOf(uploads, f) : u.chunk.partNumber \notin reported[f]
            /\ \A i \in DOMAIN parts[f] : parts[f][i].partNumber \notin reported[f]
            /\ uploadedSize[f] >= SumPartSizes(reported[f], UserFiles[f])

\* C19: while sendFileCompleteToServer is running for a file, the parts list
\* of the file it was handed is in ascending partNumber order.
C19_FinalizeGetsSortedParts ==
    \A f \in calls.finalize :
        \A i, j \in DOMAIN parts[f] :
            i < j => parts[f][i].partNumber <= parts[f][j].partNumber

\* Finalize is running for a file of several parts whose completions did not
\* arrive in part order.
C19_Witness ==
    \E f \in calls.finalize :
        /\ f \in activeFiles
        /\ f \in unordered
        /\ Len(parts[f]) = Cardinality(PartsOf(f))
        /\ Len(parts[f]) > 2

\* C20: in the step in which the begin call of a file answers skipUpload the
\* file's status becomes complete, the success callback is notified with it,
\* the file leaves the active set and, if a slot is free, the head of the file
\* queue is admitted; no chunk attempt ever exists for such a file and
\* finalize is never called for it.
C20_SkipCompletesWithoutUploading ==
    /\ [](\A f \in skipped :
            /\ AttemptsOf(uploads, f) = {}
            /\ parts[f] = <<>>
            /\ f \notin calls.finalize
            /\ f \notin activeFiles)
    /\ [][\A f \in FileIds :
            (f \in skipped' /\ f \notin skipped) =>
                /\ status'[f] = "complete"
                /\ <<"success", f>> \in emitted'
                /\ (fileQueue # <<>> /\ Cardinality(activeFiles \ {f}) < maxConcurrentFiles)
                      => Head(fileQueue) \in activeFiles'
         ]_vars

\* The begin call of a file of several chunks has just answered skipUpload
\* and the file that waited behind it has its slot.
C20_Witness ==
    \E f \in skipped :
        /\ <<"success", f>> \in emitted
        /\ status[f] = "complete"
        /\ f \notin cancelled
        /\ Cardinality(PartsOf(f)) > 1
        /\ \E g \in activeFiles : g \in calls.begin

\* C21: in an addFiles step every file of the list that passes validation is
\* appended to the file queue in list order (the head may be admitted at once)
\* and handed back to the caller, and every file that fails is rejected and
\* not queued, whatever else the list contains.
C21_EachFileValidatedOnItsOwn ==
    [][nextFile' > nextFile =>
          LET given == (nextFile + 1)..nextFile'
              passing == {f \in given : ValidateFile(UserFiles[f])}
              queued == {fileQueue'[i] : i \in DOMAIN fileQueue'} \cup activeFiles'
          IN  /\ passing \subseteq queued
              /\ \A f \in passing : <<"added", f>> \in emitted'
              /\ (given \ passing) \cap queued = {}
              /\ \A i, j \in DOMAIN fileQueue' :
                    (i < j /\ fileQueue'[i] \in given /\ fileQueue'[j] \in given)
                        => fileQueue'[i] < fileQueue'[j]
      ]_vars

\* C22: the counts of getStats add up to the number of tracked files, those
\* in the file queue plus those in the active set.
C22_StatsPartitionTrackedFiles ==
    LET stats == GetStats(Cur)
    IN  stats.queued + stats.active + stats.completed + stats.failed + stats.paused
            = Len(fileQueue) + Cardinality(activeFiles)

\* The sizes of the chunks of file f whose part numbers are in marked
RECURSIVE SizeOfChunks(_, _)
SizeOfChunks(chunks, marked) ==
    IF chunks = <<>> THEN 0
    ELSE (IF Head(chunks).partNumber \in marked THEN Head(chunks).partSize ELSE 0)
            + SizeOfChunks(Tail(chunks), marked)

\* C23: the uploadedSize of a file being uploaded is the sum of the sizes of
\* the chunks marked uploaded, between 0 and the file size, and its progress
\* is round(uploadedSize / size * 100).
C23_UploadedSizeIsSumOfUploadedChunks ==
    \A f \in activeFiles :
        f \in DOMAIN uploadedChunks =>
            /\ uploadedSize[f] =
                  SizeOfChunks(BuildChunks(UserFiles[f], ChunkSize), uploadedChunks[f])
            /\ 0 <= uploadedSize[f]
            /\ uploadedSize[f] <= UserFiles[f]
            /\ 2 * UserFiles[f] * progress[f] <= 200 * uploadedSize[f] + UserFiles[f]
            /\ 200 * uploadedSize[f] + UserFiles[f] < 2 * UserFiles[f] * (progress[f] + 1)

\* C24: the chunk getNextChunk would return, the head of a file's waiting
\* queue, has the lowest partNumber of the chunks waiting in it.
C24_NextChunkIsLowestWaiting ==
    \A f \in DOMAIN chunkQueue :
        \A i \in DOMAIN chunkQueue[f] :
            Head(chunkQueue[f]).partNumber <= chunkQueue[f][i].partNumber

\* C25: a worker that raised an error is out of the pool and out of the busy
\* map, is not the worker getAvailableWorker offers and receives no further
\* task; once failures have emptied the pool useWorker is off; and every chunk handed
\* to uploadChunk goes at once to a worker of the pool or to direct upload,
\* to direct upload when the pool is empty.
C25_FailedWorkerEvictedAndDirectFallback ==
    /\ [](/\ \A w \in wm.crashed :
                /\ w \notin wm.workerPool
                /\ w \notin DOMAIN wm.workerBusy
                /\ WorkerManagerGetAvailableWorker(wm) # w
                /\ wm.inbox[w] = {}
          /\ (wm.crashed # {} /\ wm.workerPool = {}) => ~wm.useWorker)
    /\ [][Len(wm'.tasks) > Len(wm.tasks) =>
             LET task == wm'.tasks[Len(wm'.tasks)]
             IN  /\ \/ task \in wm'.direct
                    \/ \E w \in wm.workerPool : task \in wm'.inbox[w]
                 /\ wm.workerPool = {} => task \in wm'.direct
         ]_vars

\* Every worker of a pool of MaxWorkerCount has failed before it was given a
\* task, and all chunks handed to uploadChunk since are uploaded directly.
C25_Witness ==
    /\ ~wm.slotless
    /\ wm.crashed = 1..MaxWorkerCount
    /\ wm.workerPool = {}
    /\ wm.lost = {}
    /\ wm.done = {}
    /\ Len(wm.tasks) = MaxTasks
    /\ wm.direct = {wm.tasks[i] : i \in DOMAIN wm.tasks}

\* C26: a worker's busy flag is set exactly while a task handed to it is
\* unanswered, and a worker never holds more than one unanswered task.
C26_BusyExactlyWhileTaskOutstanding ==
    \A w \in DOMAIN wm.workerBusy :
        /\ wm.workerBusy[w] <=> wm.inbox[w] # {}
        /\ Cardinality(wm.inbox[w]) <= 1

\* C27: a WorkerManager that starts without workers (useWorker false or no
\* Worker in the environment) never has a pool, a busy entry or a task entry,
\* every chunk handed to uploadChunk is uploaded directly, and every such
\* upload completes.
C27_NoWorkersMeansDirectOnly ==
    /\ [](wm.slotless =>
            /\ wm.workerPool = {}
            /\ DOMAIN wm.workerBusy = {}
            /\ DOMAIN wm.workerTasks = {}
            /\ \A w \in WorkerIds : wm.inbox[w] = {}
            /\ wm.lost = {}
            /\ \A i \in DOMAIN wm.tasks : wm.tasks[i] \in wm.direct \cup wm.done)
    /\ \A i \in 1..MaxTasks :
          (wm.slotless /\ Len(wm.tasks) >= i)
              ~> (Len(wm.tasks) >= i /\ wm.tasks[i] \in wm.done)

\* Without workers, all chunks were uploaded directly and have completed.
C27_Witness ==
    /\ wm.slotless
    /\ Len(wm.tasks) = MaxTasks
    /\ wm.done = {wm.tasks[i] : i \in DOMAIN wm.tasks}

C30_LoadQueueDropsExpiredKeepsFresh ==
    [][persistence'.loads # persistence.loads =>
          LET result == persistence'.loaded[1]
              now == persistence.now
              WithinTTL(file, at) ==
                  Has(file, "lastUpdated") /\ at - file.lastUpdated <= MaxAge
              SameFieldValues(record, file) ==
                  \A key \in PersistedFields :
                      /\ Has(record, key) = Has(file, key)
                      /\ Has(file, key) => record[key] = file[key]
          IN  /\ \A i \in 1..Len(result) :
                    WithinTTL(result[i], now) /\ ~Has(result[i], "file")
              /\ persistence.saved # <<>> =>
                    LET files == persistence.saved[1]
                    IN  /\ \A i \in 1..Len(result) : \E j \in 1..Len(files) :
                              SameFieldValues(result[i], files[j])
                        /\ \A j \in 1..Len(files) : WithinTTL(files[j], now) =>
                              \E i \in 1..Len(result) :
                                  SameFieldValues(result[i], files[j])]_vars

\* a list of one expired and one fresh file was saved, and loaded when the
\* fresh one was exactly 24 hours old: only the fresh one came back
C30_Witness ==
    /\ persistence.op = "persistence"
    /\ persistence.calls = 2 /\ persistence.loads = 1 /\ persistence.ticks = 1
    /\ persistence.saved # <<>> /\ Len(persistence.saved[1]) = 2
    /\ \E j \in 1..2 : /\ Has(persistence.saved[1][j], "lastUpdated")
                       /\ persistence.now - persistence.saved[1][j].lastUpdated > MaxAge
    /\ Len(persistence.loaded[1]) = 1
    /\ persistence.loaded[1][1].lastUpdated + MaxAge = persistence.now
    /\ Has(persistence.loaded[1][1], "uploadInfo")

\* C31: while persistence is disabled the store holds no queue item and no
\* chunk-status item: setEnabled(false) has removed both, so that nothing
\* is there to be loaded when persistence is enabled again.
C31_DisabledStoreIsEmpty ==
    ~persistence.enabled =>
        persistence.queueItem = <<>> /\ persistence.chunkItem = <<>>

\* C32: a cancelFile call for a file that an earlier cancelFile has removed
\* raises no notification and changes nothing: the queue, the active set,
\* every file's status and chunk state, the busy slots and the outstanding
\* callbacks and chunk attempts are as before, so no slot is freed and no
\* file is admitted.
C32_SecondCancelChangesNothing ==
    [][history'.cancelledAgain # history.cancelledAgain =>
          /\ emitted' = {}
          /\ UNCHANGED <<maxConcurrentFiles, nextFile, fileQueue, activeFiles, status,
                         uploadedSize, progress, parts, chunkQueue, uploadedChunks,
                         pendingChunks, workerBusy, calls, uploads, cancelled>>]_vars

\* cancelFile was called a second time for a file while another file was
\* active with a chunk attempt outstanding
C32_Witness ==
    /\ history.cancelledAgain # {}
    /\ history.cancelledAgain \subseteq cancelled
    /\ activeFiles # {}
    /\ uploads # {}

\* C33: when cancelAll or destroy returns, no file is queued or active and
\* getStats reports active = 0 and queued = 0; and for a file that was
\* queued or active at such a call, no callback (begin, list-parts,
\* finalize) and no chunk attempt is started afterwards, and it does not
\* come back to the queue or the active set.
C33_CancelAllStopsEverything ==
    [][/\ history'.dropped # history.dropped =>
              /\ fileQueue' = <<>> /\ activeFiles' = {}
              /\ GetStats(Cur)'.active = 0 /\ GetStats(Cur)'.queued = 0
       /\ \A f \in history.dropped :
              /\ f \notin activeFiles'
              /\ \A i \in DOMAIN fileQueue' : fileQueue'[i] # f
              /\ f \notin (calls'.begin \ calls.begin)
              /\ f \notin (calls'.parts \ calls.parts)
              /\ f \notin (calls'.finalize \ calls.finalize)
              /\ \A u \in uploads' \ uploads : u.fileId # f]_vars

\* C34: for every active file, each part number in 1..ceil(size/chunkSize)
\* is in exactly one of the waiting queue (once), the pending set and the
\* uploaded set, and these hold no other part number; while the finalize
\* call of an active file is outstanding every part number is uploaded.
C34_ChunksInExactlyOnePlace ==
    \A f \in activeFiles :
        LET all == 1..TotalChunks(UserFiles[f])
            queue == MapGetOr(chunkQueue, f, <<>>)
            pending == MapGetOr(pendingChunks, f, {})
            uploaded == MapGetOr(uploadedChunks, f, {})
            Waiting(p) == Cardinality({i \in DOMAIN queue : queue[i].partNumber = p})
        IN  /\ \A p \in all :
                  Waiting(p) + (IF p \in pending THEN 1 ELSE 0)
                             + (IF p \in uploaded THEN 1 ELSE 0) = 1
            /\ {queue[i].partNumber : i \in DOMAIN queue} \cup pending \cup uploaded
                  \subseteq all
            /\ f \in calls.finalize => uploaded = all

\* a 3-chunk file whose chunk 1 failed and was requeued while it was paused,
\* with chunk 2 uploaded out of order and chunk 3 waiting
C34_Witness ==
    \E f \in activeFiles :
        /\ status[f] = "pause"
        /\ requeues[f][1] > 0
        /\ 2 \in MapGetOr(uploadedChunks, f, {})
        /\ Len(MapGetOr(chunkQueue, f, <<>>)) = 2

C36_AtMostOneTerminalNotification ==
    \A f \in FileIds : history.successes[f] + history.errors[f] <= 1

\* C37: sendFileCompleteToServer has been called at most once for every
\* file.
C37_FinalizeCalledAtMostOnce ==
    \A f \in FileIds : history.finalizeCalls[f] <= 1

\* the finalize call of a file that was paused and resumed, and whose chunk
\* completions arrived out of order, is outstanding
C37_Witness ==
    \E f \in everPaused \cap unordered :
        /\ f \in calls.finalize
        /\ status[f] = "complete"
        /\ history.finalizeCalls[f] = 1

\* C38: once cancelFile has been called for a file that was active or
\* waiting in the queue, no begin callback, chunk attempt or finalize
\* callback is started for that file.
C38_NothingStartedAfterCancelFile ==
    [][\A f \in cancelled \cup history.cancelledInQueue :
          /\ f \in calls.begin' => f \in calls.begin
          /\ f \in calls.finalize' => f \in calls.finalize
          /\ \A u \in uploads' \ uploads : u.fileId # f]_vars

\* C39: while the limiter is enabled with capacity c > 0 and has only been
\* asked for bytes since it was created, the bytes of the requests whose
\* wait is over at a time T (callers send when their wait is over) are at
\* most c * T / 1000 + c + the largest request, for every such time T.
C39_BytesSentWithinRate ==
    LET RECURSIVE SentBy(_, _)
        SentBy(n, T) ==
            IF n = 0 THEN 0
            ELSE SentBy(n - 1, T) +
                 (IF limiter.log[n].at + limiter.log[n].wait <= T
                  THEN limiter.log[n].bytes ELSE 0)
        Largest == CHOOSE b \in {limiter.log[n].bytes : n \in DOMAIN limiter.log} :
                      \A n \in DOMAIN limiter.log : limiter.log[n].bytes <= b
    IN  (/\ limiter.op = "limiter"
         /\ limiter.enabled
         /\ limiter.maxBytesPerSecond > 0
         /\ limiter.calls = Len(limiter.log))
        => \A i \in DOMAIN limiter.log :
              LET T == limiter.log[i].at + limiter.log[i].wait
              IN  1000 * SentBy(Len(limiter.log), T)
                      <= limiter.maxBytesPerSecond * T
                         + 1000 * limiter.maxBytesPerSecond + 1000 * Largest

\* C40: when a worker raises an error event while a task handed to it is
\* unanswered, that task is afterwards uploaded directly, handed to a
\* worker again, or reported to the caller as finished (failed).
C40_TaskOfCrashedWorkerNotLost ==
    [][\A w \in WorkerIds : \A task \in wm.inbox[w] :
          (w \in wm'.crashed /\ w \notin wm.crashed) =>
              \/ task \in wm'.direct
              \/ task \in wm'.done
              \/ \E v \in WorkerIds : task \in wm'.inbox[v]]_vars

====
